---- MODULE Spec2Model ----
(***************************************************************************)
(* The inbound Megolm group session of vodozemac                           *)
(* (src/src/megolm/inbound_group_session.rs): construction from a session  *)
(* key, ratchet lookup, and the decrypt pipeline.                          *)
(*                                                                         *)
(* Cryptography is symbolic.  A signature is described by who made it and  *)
(* which bytes it covers, a MAC by the key it was computed under, and a    *)
(* ratchet's 128 key bytes by the seed they descend from together with the *)
(* number of hash steps applied to it.                                     *)
(***************************************************************************)
EXTENDS Integers, Sequences, FiniteSets, TLC

\* ------------------------------------------------------------------------
\* Bounds of the model
\* ------------------------------------------------------------------------

\* Messages declare an index in 0..MaxIndex (or one of two indices >= 256).
MaxIndex == 5

\* Session keys declare a starting index whose low byte is in 0..MaxStart.
MaxStart == 1

\* ------------------------------------------------------------------------
\* Program constants
\* ------------------------------------------------------------------------

SESSION_KEY_VERSION == 1

VERSION_LENGTH == 1

INDEX_LENGTH == 4

RATCHET_LENGTH == 128

PUBLIC_KEY_LENGTH == 32

SIGNATURE_LENGTH == 64

\* One byte holds the values 0 .. ByteBase - 1.
ByteBase == 256

\* ------------------------------------------------------------------------
\* Option values, as in Rust
\* ------------------------------------------------------------------------

None == [some |-> FALSE]

Some(v) == [some |-> TRUE, value |-> v]

\* ------------------------------------------------------------------------
\* Input alphabets
\* ------------------------------------------------------------------------

\* 128-byte ratchet seeds.
Seeds == {"seedA", "seedB"}

\* Well-formed Ed25519 public keys (each with its own private key).
PubKeys == {"keyA", "keyB"}

\* 32 bytes that are not a valid curve point.
InvalidPoint == "invalid_point"

\* The indices a message may declare.
MsgIndices == (0 .. MaxIndex) \cup {ByteBase, ByteBase + 1}

\* The 4-byte index fields a session key may carry.
IndexFields == {<<i, 0, 0, 0>> : i \in 0 .. MaxStart} \cup {<<0, 1, 0, 0>>}

\* ------------------------------------------------------------------------
\* Ratchet (megolm/ratchet.rs): a forward-only hash chain with a counter
\* ------------------------------------------------------------------------

\* The counter is a u32; the model keeps 16 bits of it, which is more than
\* every index it uses.
CounterModulus == ByteBase * ByteBase

Ratchet_from_bytes(bytes, index) == [index |-> index, seed |-> bytes, steps |-> 0]

Ratchet_index(r) == r.index

\* The 128 key bytes: the seed hashed `steps` times.
Ratchet_as_bytes(r) == <<r.seed, r.steps>>

\* Hashes forward until the counter equals `to`; the counter wraps around.
Ratchet_advance_to(r, to) ==
    [r EXCEPT !.index = to,
              !.steps = r.steps + ((to - r.index) % CounterModulus)]

\* ------------------------------------------------------------------------
\* InboundGroupSession
\* ------------------------------------------------------------------------

InboundGroupSession(initial, latest, key) ==
    [initial_ratchet |-> initial, latest_ratchet |-> latest, signing_key |-> key]

\* Variants of find_ratchet, each with one slip, used to show that the
\* properties below depend on it.

\* The last branch re-seeds without checking that the index is above
\* initial_ratchet's.
find_ratchet_no_floor(self, message_index) ==
    IF Ratchet_index(self.initial_ratchet) = message_index
    THEN [session |-> self, ratchet |-> Some(self.initial_ratchet)]
    ELSE IF Ratchet_index(self.latest_ratchet) = message_index
    THEN [session |-> self, ratchet |-> Some(self.latest_ratchet)]
    ELSE IF Ratchet_index(self.latest_ratchet) < message_index
    THEN LET advanced == Ratchet_advance_to(self.latest_ratchet, message_index)
         IN [session |-> [self EXCEPT !.latest_ratchet = advanced],
             ratchet |-> Some(advanced)]
    ELSE LET advanced == Ratchet_advance_to(self.initial_ratchet, message_index)
         IN [session |-> [self EXCEPT !.latest_ratchet = advanced],
             ratchet |-> Some(advanced)]

\* An index between the two ratchets advances latest_ratchet itself instead
\* of a copy of initial_ratchet.
find_ratchet_no_reseed(self, message_index) ==
    IF Ratchet_index(self.initial_ratchet) = message_index
    THEN [session |-> self, ratchet |-> Some(self.initial_ratchet)]
    ELSE IF Ratchet_index(self.latest_ratchet) = message_index
    THEN [session |-> self, ratchet |-> Some(self.latest_ratchet)]
    ELSE IF Ratchet_index(self.initial_ratchet) < message_index
    THEN LET advanced == Ratchet_advance_to(self.latest_ratchet, message_index)
         IN [session |-> [self EXCEPT !.latest_ratchet = advanced],
             ratchet |-> Some(advanced)]
    ELSE [session |-> self, ratchet |-> None]

\* An index between the two ratchets advances initial_ratchet in place and
\* copies it to latest_ratchet.
find_ratchet_advances_initial(self, message_index) ==
    IF Ratchet_index(self.initial_ratchet) = message_index
    THEN [session |-> self, ratchet |-> Some(self.initial_ratchet)]
    ELSE IF Ratchet_index(self.latest_ratchet) = message_index
    THEN [session |-> self, ratchet |-> Some(self.latest_ratchet)]
    ELSE IF Ratchet_index(self.latest_ratchet) < message_index
    THEN LET advanced == Ratchet_advance_to(self.latest_ratchet, message_index)
         IN [session |-> [self EXCEPT !.latest_ratchet = advanced],
             ratchet |-> Some(advanced)]
    ELSE IF Ratchet_index(self.initial_ratchet) < message_index
    THEN LET advanced == Ratchet_advance_to(self.initial_ratchet, message_index)
         IN [session |-> [self EXCEPT !.initial_ratchet = advanced,
                                      !.latest_ratchet = advanced],
             ratchet |-> Some(advanced)]
    ELSE [session |-> self, ratchet |-> None]

\* An index between the two ratchets returns an advanced copy of
\* initial_ratchet but stores the copy before advancing it.
find_ratchet_stores_copy(self, message_index) ==
    IF Ratchet_index(self.initial_ratchet) = message_index
    THEN [session |-> self, ratchet |-> Some(self.initial_ratchet)]
    ELSE IF Ratchet_index(self.latest_ratchet) = message_index
    THEN [session |-> self, ratchet |-> Some(self.latest_ratchet)]
    ELSE IF Ratchet_index(self.latest_ratchet) < message_index
    THEN LET advanced == Ratchet_advance_to(self.latest_ratchet, message_index)
         IN [session |-> [self EXCEPT !.latest_ratchet = advanced],
             ratchet |-> Some(advanced)]
    ELSE IF Ratchet_index(self.initial_ratchet) < message_index
    THEN [session |-> [self EXCEPT !.latest_ratchet = self.initial_ratchet],
          ratchet |-> Some(Ratchet_advance_to(self.initial_ratchet, message_index))]
    ELSE [session |-> self, ratchet |-> None]

\* The branch for an index between the two ratchets is missing.
find_ratchet_no_between(self, message_index) ==
    IF Ratchet_index(self.initial_ratchet) = message_index
    THEN [session |-> self, ratchet |-> Some(self.initial_ratchet)]
    ELSE IF Ratchet_index(self.latest_ratchet) = message_index
    THEN [session |-> self, ratchet |-> Some(self.latest_ratchet)]
    ELSE IF Ratchet_index(self.latest_ratchet) < message_index
    THEN LET advanced == Ratchet_advance_to(self.latest_ratchet, message_index)
         IN [session |-> [self EXCEPT !.latest_ratchet = advanced],
             ratchet |-> Some(advanced)]
    ELSE [session |-> self, ratchet |-> None]

\* The branch that returns initial_ratchet itself is missing.
find_ratchet_no_initial(self, message_index) ==
    IF Ratchet_index(self.latest_ratchet) = message_index
    THEN [session |-> self, ratchet |-> Some(self.latest_ratchet)]
    ELSE IF Ratchet_index(self.latest_ratchet) < message_index
    THEN LET advanced == Ratchet_advance_to(self.latest_ratchet, message_index)
         IN [session |-> [self EXCEPT !.latest_ratchet = advanced],
             ratchet |-> Some(advanced)]
    ELSE IF Ratchet_index(self.initial_ratchet) < message_index
    THEN LET advanced == Ratchet_advance_to(self.initial_ratchet, message_index)
         IN [session |-> [self EXCEPT !.latest_ratchet = advanced],
             ratchet |-> Some(advanced)]
    ELSE [session |-> self, ratchet |-> None]

\* Variant of find_ratchet that re-seeds latest_ratchet from initial_ratchet
\* when the message index is the initial index.
find_ratchet_reseeds_on_initial(self, message_index) ==
    IF Ratchet_index(self.initial_ratchet) = message_index
    THEN [session |-> [self EXCEPT !.latest_ratchet = self.initial_ratchet],
          ratchet |-> Some(self.initial_ratchet)]
    ELSE IF Ratchet_index(self.latest_ratchet) = message_index
    THEN [session |-> self, ratchet |-> Some(self.latest_ratchet)]
    ELSE IF Ratchet_index(self.latest_ratchet) < message_index
    THEN LET advanced == Ratchet_advance_to(self.latest_ratchet, message_index)
         IN [session |-> [self EXCEPT !.latest_ratchet = advanced],
             ratchet |-> Some(advanced)]
    ELSE IF Ratchet_index(self.initial_ratchet) < message_index
    THEN LET advanced == Ratchet_advance_to(self.initial_ratchet, message_index)
         IN [session |-> [self EXCEPT !.latest_ratchet = advanced],
             ratchet |-> Some(advanced)]
    ELSE [session |-> self, ratchet |-> None]

\* Variant of find_ratchet that, for an index between the two ratchets, stores
\* the advanced copy in latest_ratchet but returns a reference to
\* initial_ratchet.
find_ratchet_returns_initial_between(self, message_index) ==
    IF Ratchet_index(self.initial_ratchet) = message_index
    THEN [session |-> self, ratchet |-> Some(self.initial_ratchet)]
    ELSE IF Ratchet_index(self.latest_ratchet) = message_index
    THEN [session |-> self, ratchet |-> Some(self.latest_ratchet)]
    ELSE IF Ratchet_index(self.latest_ratchet) < message_index
    THEN LET advanced == Ratchet_advance_to(self.latest_ratchet, message_index)
         IN [session |-> [self EXCEPT !.latest_ratchet = advanced],
             ratchet |-> Some(advanced)]
    ELSE IF Ratchet_index(self.initial_ratchet) < message_index
    THEN LET advanced == Ratchet_advance_to(self.initial_ratchet, message_index)
         IN [session |-> [self EXCEPT !.latest_ratchet = advanced],
             ratchet |-> Some(self.initial_ratchet)]
    ELSE [session |-> self, ratchet |-> None]

\* find_ratchet(&mut self, message_index) -> Option<&Ratchet>: the session
\* after the call and the ratchet the returned reference points to.
find_ratchet(self, message_index) ==
    IF Ratchet_index(self.initial_ratchet) = message_index
    THEN [session |-> self, ratchet |-> Some(self.initial_ratchet)]
    ELSE IF Ratchet_index(self.latest_ratchet) = message_index
    THEN [session |-> self, ratchet |-> Some(self.latest_ratchet)]
    ELSE IF Ratchet_index(self.latest_ratchet) < message_index
    THEN LET advanced == Ratchet_advance_to(self.latest_ratchet, message_index)
         IN [session |-> [self EXCEPT !.latest_ratchet = advanced],
             ratchet |-> Some(advanced)]
    ELSE IF Ratchet_index(self.initial_ratchet) < message_index
    THEN LET advanced == Ratchet_advance_to(self.initial_ratchet, message_index)
         IN [session |-> [self EXCEPT !.latest_ratchet = advanced],
             ratchet |-> Some(advanced)]
    ELSE [session |-> self, ratchet |-> None]

\* Variant of find_ratchet_advance_to whose last branch advances the copy of
\* initial_ratchet without comparing its index with the message index.
find_ratchet_advance_to_unguarded(self, message_index) ==
    IF Ratchet_index(self.initial_ratchet) = message_index
    THEN None
    ELSE IF Ratchet_index(self.latest_ratchet) = message_index
    THEN None
    ELSE IF Ratchet_index(self.latest_ratchet) < message_index
    THEN Some([ratchet |-> self.latest_ratchet, to |-> message_index])
    ELSE Some([ratchet |-> self.initial_ratchet, to |-> message_index])

\* The call of Ratchet::advance_to that find_ratchet makes, if it makes one:
\* the ratchet it is invoked on (latest_ratchet at line 111, the fresh clone
\* of initial_ratchet at line 115) and the target index.
find_ratchet_advance_to(self, message_index) ==
    IF Ratchet_index(self.initial_ratchet) = message_index
    THEN None
    ELSE IF Ratchet_index(self.latest_ratchet) = message_index
    THEN None
    ELSE IF Ratchet_index(self.latest_ratchet) < message_index
    THEN Some([ratchet |-> self.latest_ratchet, to |-> message_index])
    ELSE IF Ratchet_index(self.initial_ratchet) < message_index
    THEN Some([ratchet |-> self.initial_ratchet, to |-> message_index])
    ELSE None

\* ------------------------------------------------------------------------
\* Symbolic Ed25519 and cipher (external crates)
\* ------------------------------------------------------------------------

\* PublicKey::from_bytes: fails when the 32 bytes are not a curve point.
PublicKey_from_bytes(bytes) == IF bytes \in PubKeys THEN Some(bytes) ELSE None

\* Signature::from_bytes: fails on a malformed 64-byte field.
Signature_from_bytes(field) == IF field.wellformed THEN Some(field) ELSE None

\* PublicKey::verify(message, signature): `signature.covers` holds the
\* byte strings the signature is a valid signature of, under `signer`.
verify(public_key, message, signature) ==
    signature.signer = public_key /\ message \in signature.covers

\* Cipher::verify_mac: the MAC is valid under the key it was computed with.
verify_mac(key_bytes, message) == message.mac_key = key_bytes

\* ------------------------------------------------------------------------
\* Session keys (the input of InboundGroupSession::new)
\* ------------------------------------------------------------------------

\* Offset of the end of each field of the session key layout.
VersionEnd == VERSION_LENGTH

IndexEnd == VersionEnd + INDEX_LENGTH

RatchetEnd == IndexEnd + RATCHET_LENGTH

PublicKeyEnd == RatchetEnd + PUBLIC_KEY_LENGTH

SignatureEnd == PublicKeyEnd + SIGNATURE_LENGTH

\* Decoded lengths tried: empty, ending at a field boundary, one byte short,
\* exact, and one byte too long.
SessionKeyLens ==
    {0, VersionEnd, IndexEnd, RatchetEnd, PublicKeyEnd,
     SignatureEnd - 1, SignatureEnd, SignatureEnd + 1}

\* The prefix of the decoded bytes of the given length.
Prefix(len) == len

\* The byte strings a signature field may be a valid signature of: none, or
\* the bytes before the signature field (no signature is a signature of
\* bytes that contain it).
SignatureCovers == {{}, {Prefix(PublicKeyEnd)}}

SignatureFields ==
    {[wellformed |-> FALSE, signer |-> "keyA", covers |-> {}]}
    \cup [wellformed : {TRUE}, signer : PubKeys, covers : SignatureCovers]

NotBase64Key ==
    [base64_ok |-> FALSE, len |-> 0, version |-> 0, index |-> <<0, 0, 0, 0>>,
     ratchet |-> "seedA", public_key |-> "keyA",
     signature |-> [wellformed |-> FALSE, signer |-> "keyA", covers |-> {}]]

\* A session key text: not base64 at all, or the base64 of `len` bytes whose
\* fields, as far as they are present, hold the given values.
SessionKeys ==
    {NotBase64Key}
    \cup [base64_ok : {TRUE}, len : SessionKeyLens,
          version : {SESSION_KEY_VERSION, SESSION_KEY_VERSION + 1},
          index : IndexFields, ratchet : Seeds,
          public_key : PubKeys \cup {InvalidPoint},
          signature : SignatureFields]

\* Cursor::read_exact of n bytes at position pos of len bytes.
read_exact(len, pos, n) == pos + n <= len

\* Variant of from_le_bytes that reads the four bytes most significant first.
from_be_bytes(b) ==
    b[4] + ByteBase * b[3] + ByteBase * ByteBase * b[2]
    + ByteBase * ByteBase * ByteBase * b[1]

\* u32::from_le_bytes
from_le_bytes(b) ==
    b[1] + ByteBase * b[2] + ByteBase * ByteBase * b[3]
    + ByteBase * ByteBase * ByteBase * b[4]

\* Whether decoded[..decoded.len() - 64] can be taken of decoded_len bytes.
\* When decoded.len() < 64 the subtraction underflows: a build with overflow
\* checks panics there, and a build without them wraps to an end far above
\* decoded.len(), on which the slicing panics.
signed_region_in_bounds(decoded_len) ==
    /\ SIGNATURE_LENGTH <= decoded_len
    /\ decoded_len - SIGNATURE_LENGTH <= decoded_len

\* The bytes new() verifies the signature over: decoded[..decoded.len() - 64].
signed_region(decoded_len) == Prefix(decoded_len - SIGNATURE_LENGTH)

SessoinCreationError(kind, step) == [kind |-> kind, step |-> step, session |-> None]

\* new(), lines 90-101: the fields are read; build the ratchets, parse the
\* key and the signature, verify, and return the session.
new_build(session_key) ==
    LET index == from_le_bytes(session_key.index)
        initial_ratchet == Ratchet_from_bytes(session_key.ratchet, index)
        latest_ratchet == initial_ratchet
        signing_key == PublicKey_from_bytes(session_key.public_key)
        signature == Signature_from_bytes(session_key.signature)
    IN IF ~signing_key.some
       THEN SessoinCreationError("Signature", "public_key")
       ELSE IF ~signature.some
       THEN SessoinCreationError("Signature", "signature")
       ELSE IF ~signed_region_in_bounds(session_key.len)
       THEN [kind |-> "Panic", step |-> "signed_region", session |-> None]
       ELSE IF ~verify(signing_key.value, signed_region(session_key.len),
                       signature.value)
       THEN SessoinCreationError("Signature", "verify")
       ELSE [kind |-> "Ok", step |-> "ok",
             session |-> Some(InboundGroupSession(initial_ratchet, latest_ratchet,
                                                  signing_key.value))]

\* Variant of new_read_fields that ignores the outcome of the four reads and
\* goes on with the buffers as they are.
new_read_fields_unchecked(session_key) == new_build(session_key)

\* new(), lines 85-88: the four reads after the version check.
new_read_fields(session_key) ==
    IF ~read_exact(session_key.len, VersionEnd, INDEX_LENGTH)
    THEN SessoinCreationError("Read", "read_index")
    ELSE IF ~read_exact(session_key.len, IndexEnd, RATCHET_LENGTH)
    THEN SessoinCreationError("Read", "read_ratchet")
    ELSE IF ~read_exact(session_key.len, RatchetEnd, PUBLIC_KEY_LENGTH)
    THEN SessoinCreationError("Read", "read_public_key")
    ELSE IF ~read_exact(session_key.len, PublicKeyEnd, SIGNATURE_LENGTH)
    THEN SessoinCreationError("Read", "read_signature")
    ELSE new_build(session_key)

\* Variant of new_check_version that reads the four remaining fields before
\* it checks the version byte.
new_check_version_after_reads(session_key) ==
    IF ~read_exact(session_key.len, VersionEnd, INDEX_LENGTH)
    THEN SessoinCreationError("Read", "read_index")
    ELSE IF ~read_exact(session_key.len, IndexEnd, RATCHET_LENGTH)
    THEN SessoinCreationError("Read", "read_ratchet")
    ELSE IF ~read_exact(session_key.len, RatchetEnd, PUBLIC_KEY_LENGTH)
    THEN SessoinCreationError("Read", "read_public_key")
    ELSE IF ~read_exact(session_key.len, PublicKeyEnd, SIGNATURE_LENGTH)
    THEN SessoinCreationError("Read", "read_signature")
    ELSE IF session_key.version # SESSION_KEY_VERSION
    THEN [kind |-> "Version", step |-> "version", session |-> None,
          expected |-> SESSION_KEY_VERSION, actual |-> session_key.version]
    ELSE new_build(session_key)

\* Variant of new_check_version whose error carries the byte read first and
\* the supported version second.
new_check_version_swapped(session_key) ==
    IF session_key.version # SESSION_KEY_VERSION
    THEN [kind |-> "Version", step |-> "version", session |-> None,
          expected |-> session_key.version, actual |-> SESSION_KEY_VERSION]
    ELSE new_read_fields(session_key)

\* new(), lines 82-102: the version byte is read; check it, then go on.
new_check_version(session_key) ==
    IF session_key.version # SESSION_KEY_VERSION
    THEN [kind |-> "Version", step |-> "version", session |-> None,
          expected |-> SESSION_KEY_VERSION, actual |-> session_key.version]
    ELSE new_read_fields(session_key)

\* InboundGroupSession::new(session_key) -> Result<Self, SessoinCreationError>
InboundGroupSession_new(session_key) ==
    IF ~session_key.base64_ok
    THEN SessoinCreationError("Base64", "base64_decode")
    ELSE IF ~read_exact(session_key.len, 0, VERSION_LENGTH)
    THEN SessoinCreationError("Read", "read_version")
    ELSE new_check_version(session_key)

\* ------------------------------------------------------------------------
\* Ciphertext messages (the input of InboundGroupSession::decrypt)
\* ------------------------------------------------------------------------

\* The key bytes a MAC may have been computed under.
MacKeys == {<<seed, steps>> : seed \in Seeds, steps \in 0 .. MaxIndex}

NotBase64Message ==
    [form |-> "not_base64", message_index |-> 0, signer |-> "keyA",
     mac_key |-> <<"seedA", 0>>, padding_ok |-> FALSE]

UndecodableMessage ==
    [form |-> "undecodable", message_index |-> 0, signer |-> "keyA",
     mac_key |-> <<"seedA", 0>>, padding_ok |-> FALSE]

\* A ciphertext text: not base64, the base64 of bytes MegolmMessage::decode
\* rejects, or of a message that declares message_index, is signed by
\* `signer`, carries a MAC computed under mac_key, and whose ciphertext
\* has or has not valid padding.
Ciphertexts ==
    {NotBase64Message, UndecodableMessage}
    \cup [form : {"message"}, message_index : MsgIndices, signer : PubKeys,
          mac_key : MacKeys, padding_ok : BOOLEAN]

\* The bytes of a message its signature is made over.
bytes_for_signing(message) == "bytes_for_signing"

\* The signature a decoded message carries.
message_signature(message) ==
    [wellformed |-> TRUE, signer |-> message.signer,
     covers |-> {bytes_for_signing(message)}]

\* The index a ciphertext declares, once it decodes to a message.
declared_index(ciphertext) ==
    IF ciphertext.form = "message" THEN Some(ciphertext.message_index) ELSE None

DecryptionError(self, kind, steps) ==
    [session |-> self, result |-> [kind |-> kind, steps |-> steps]]

\* The steps of decrypt() that have run once the ratchet lookup returns.
looked_up == <<"base64_decode", "decode", "verify", "find_ratchet">>

\* Variant of decrypt_with_ratchet that decrypts the ciphertext before it
\* checks the MAC.
decrypt_with_ratchet_decrypt_first(self, ratchet, message) ==
    IF ~message.padding_ok
    THEN DecryptionError(self, "InvalidCiphertext",
                         Append(looked_up, "cipher_decrypt"))
    ELSE IF ~verify_mac(Ratchet_as_bytes(ratchet), message)
    THEN DecryptionError(self, "InvalidMAC",
                         looked_up \o <<"cipher_decrypt", "verify_mac">>)
    ELSE [session |-> self,
          result |-> [kind |-> "Ok",
                      steps |-> looked_up \o <<"cipher_decrypt", "verify_mac">>,
                      message_index |-> message.message_index]]

\* decrypt(), lines 129-135: a ratchet was found; check the MAC, decrypt.
decrypt_with_ratchet(self, ratchet, message) ==
    IF ~verify_mac(Ratchet_as_bytes(ratchet), message)
    THEN DecryptionError(self, "InvalidMAC", Append(looked_up, "verify_mac"))
    ELSE IF ~message.padding_ok
    THEN DecryptionError(self, "InvalidCiphertext",
                         looked_up \o <<"verify_mac", "cipher_decrypt">>)
    ELSE [session |-> self,
          result |-> [kind |-> "Ok",
                      steps |-> looked_up \o <<"verify_mac", "cipher_decrypt">>,
                      message_index |-> message.message_index]]

\* Variant of unknown_message_index with the two indices exchanged.
unknown_message_index_swapped(self, message) ==
    [session |-> self,
     result |-> [kind |-> "UnknownMessageIndex", steps |-> looked_up,
                 first_known |-> message.message_index,
                 requested |-> Ratchet_index(self.initial_ratchet)]]

\* decrypt(), lines 137-140: no ratchet was found.
unknown_message_index(self, message) ==
    [session |-> self,
     result |-> [kind |-> "UnknownMessageIndex", steps |-> looked_up,
                 first_known |-> Ratchet_index(self.initial_ratchet),
                 requested |-> message.message_index]]

\* decrypt(), lines 128-141: the signature is verified; look the ratchet up.
decrypt_verified(self, message) ==
    LET found == find_ratchet(self, message.message_index)
    IN IF found.ratchet.some
       THEN decrypt_with_ratchet(found.session, found.ratchet.value, message)
       ELSE unknown_message_index(found.session, message)

\* Variant of decrypt_decoded that looks the ratchet up before it verifies
\* the signature.
decrypt_decoded_late_verify(self, message) ==
    LET out == decrypt_verified(self, message)
    IN IF ~verify(self.signing_key, bytes_for_signing(message),
                  message_signature(message))
       THEN DecryptionError(out.session, "Signature",
                            <<"base64_decode", "decode", "find_ratchet", "verify">>)
       ELSE out

\* decrypt(), lines 126-141: the message is decoded; verify its signature.
decrypt_decoded(self, message) ==
    IF ~verify(self.signing_key, bytes_for_signing(message),
               message_signature(message))
    THEN DecryptionError(self, "Signature", <<"base64_decode", "decode", "verify">>)
    ELSE decrypt_verified(self, message)

\* InboundGroupSession::decrypt(&mut self, ciphertext): the session after
\* the call and the Result returned; `steps` lists the steps that ran.
decrypt(self, ciphertext) ==
    IF ciphertext.form = "not_base64"
    THEN DecryptionError(self, "Base64", <<"base64_decode">>)
    ELSE IF ciphertext.form = "undecodable"
    THEN DecryptionError(self, "DecodeError", <<"base64_decode", "decode">>)
    ELSE decrypt_decoded(self, ciphertext)

\* InboundGroupSession::export_at(&mut self) -> String: takes no index and
\* its body is todo!(), which panics; no String is returned.
export_at(self) == [session |-> self, result |-> [kind |-> "Panic"]]

\* ------------------------------------------------------------------------
\* Byte strings and unpadded base64 (crate::utilities)
\* ------------------------------------------------------------------------

\* Result<T, E>
Ok(v) == [ok |-> TRUE, value |-> v]

Err(e) == [ok |-> FALSE, error |-> e]

\* The byte string of n bytes that are all b.
Rep(n, b) == [i \in 1 .. n |-> b]

\* A base64 text is the sequence of its symbols; a symbol of the alphabet
\* A-Z a-z 0-9 + / is written as its 6-bit value, and InvalidSymbol is a
\* character outside the alphabet (the space of "a " in the tests).
SextetBase == 64

InvalidSymbol == SextetBase

\* The symbols a, Z of the test texts "a", "a ", "aZ" and "aaaa".
Symbol_a == 26

Symbol_Z == 25

\* base64_encode: three bytes give four symbols; one or two bytes left over
\* give two or three symbols, without padding.
RECURSIVE base64_encode(_)
base64_encode(bytes) ==
    IF Len(bytes) = 0 THEN <<>>
    ELSE IF Len(bytes) = 1
    THEN <<bytes[1] \div 4, (bytes[1] % 4) * 16>>
    ELSE IF Len(bytes) = 2
    THEN <<bytes[1] \div 4, (bytes[1] % 4) * 16 + bytes[2] \div 16,
           (bytes[2] % 16) * 4>>
    ELSE <<bytes[1] \div 4, (bytes[1] % 4) * 16 + bytes[2] \div 16,
           (bytes[2] % 16) * 4 + bytes[3] \div 64, bytes[3] % 64>>
         \o base64_encode(SubSeq(bytes, 4, Len(bytes)))

\* The bytes of a text of valid symbols whose length is not 1 modulo 4;
\* bits left over after the last whole byte are dropped.
RECURSIVE base64_bytes(_)
base64_bytes(text) ==
    IF Len(text) = 0 THEN <<>>
    ELSE IF Len(text) = 2
    THEN <<text[1] * 4 + text[2] \div 16>>
    ELSE IF Len(text) = 3
    THEN <<text[1] * 4 + text[2] \div 16,
           (text[2] % 16) * 16 + text[3] \div 4>>
    ELSE <<text[1] * 4 + text[2] \div 16,
           (text[2] % 16) * 16 + text[3] \div 4,
           (text[3] % 4) * 64 + text[4]>>
         \o base64_bytes(SubSeq(text, 5, Len(text)))

\* The bits of the last symbol that belong to no byte.
base64_trailing_bits(text) ==
    IF Len(text) % 4 = 2 THEN text[Len(text)] % 16
    ELSE IF Len(text) % 4 = 3 THEN text[Len(text)] % 4
    ELSE 0

\* base64_decode -> Result<Vec<u8>, DecodeError>
base64_decode(text) ==
    IF \E i \in 1 .. Len(text) : text[i] \notin 0 .. (SextetBase - 1)
    THEN Err([kind |-> "Base64", sub |-> "InvalidByte"])
    ELSE IF Len(text) % 4 = 1
    THEN Err([kind |-> "Base64", sub |-> "InvalidLength"])
    ELSE IF base64_trailing_bits(text) # 0
    THEN Err([kind |-> "Base64", sub |-> "InvalidLastSymbol"])
    ELSE Ok(base64_bytes(text))

\* ------------------------------------------------------------------------
\* Curve25519 key types (types.rs)
\* ------------------------------------------------------------------------

\* Curve25519PublicKey::KEY_LENGTH
KEY_LENGTH == 32

CURVE25519_SECRET_KEY_LEN == 32

\* x25519_dalek clamps a scalar when a StaticSecret is made from bytes: the
\* low three bits of the first byte and the top bit of the last byte are
\* cleared, and the second highest bit of the last byte is set.
clamp_scalar(bytes) ==
    [bytes EXCEPT ![1] = @ - (@ % 8),
                  ![CURVE25519_SECRET_KEY_LEN] = (@ % 64) + 64]

\* StaticSecret::from([u8; 32]), and StaticSecret::new on the random bytes
\* drawn from the generator
StaticSecret_from(bytes) == clamp_scalar(bytes)

\* StaticSecret::to_bytes
StaticSecret_to_bytes(secret) == secret

\* PublicKey::from(&StaticSecret): the scalar multiplication of the base
\* point, which is a fixed function of the scalar; the curve arithmetic is
\* replaced by a fixed function of the same bytes.
PublicKey_from_secret(secret) ==
    [i \in 1 .. KEY_LENGTH |-> (secret[i] + i) % ByteBase]

\* Curve25519Keypair::new(), with the bytes the generator returns
Curve25519Keypair_new(random) ==
    LET secret_key == StaticSecret_from(random)
        public_key == PublicKey_from_secret(secret_key)
    IN [type |-> "Curve25519Keypair", secret_key |-> secret_key,
        public_key |-> public_key,
        encoded_public_key |-> base64_encode(public_key)]

\* #[derive(Clone)] of Curve25519Keypair
Curve25519Keypair_clone(key) == key

\* Drop for Curve25519KeypairPickle: the bytes the container holds
\* afterwards.
Curve25519KeypairPickle_drop(pickle) ==
    [pickle EXCEPT !.secret = Rep(CURVE25519_SECRET_KEY_LEN, 0)]

\* From<Curve25519KeypairPickle> for Curve25519Keypair: the keypair, and
\* the bytes of the container once it is dropped at the end of the call.
Curve25519Keypair_from(pickle) ==
    [value |-> [type |-> "Curve25519Keypair",
                secret_key |-> StaticSecret_from(pickle.secret),
                public_key |-> pickle.public,
                encoded_public_key |-> base64_encode(pickle.public)],
     released |-> Curve25519KeypairPickle_drop(pickle)]

\* Variant of Curve25519KeypairPickle_from that stores the two keys in each
\* other's field.
Curve25519KeypairPickle_from_swapped(key) ==
    [type |-> "Curve25519KeypairPickle",
     secret |-> key.public_key,
     public |-> StaticSecret_to_bytes(key.secret_key)]

\* From<Curve25519Keypair> for Curve25519KeypairPickle
Curve25519KeypairPickle_from(key) ==
    [type |-> "Curve25519KeypairPickle",
     secret |-> StaticSecret_to_bytes(key.secret_key),
     public |-> key.public_key]

\* Variant of Curve25519PublicKey::from_slice whose error carries the
\* expected length.
Curve25519PublicKey_from_slice_expected_length(slice) ==
    LET key_len == Len(slice)
    IN IF key_len = KEY_LENGTH
       THEN Ok([type |-> "Curve25519PublicKey", inner |-> slice])
       ELSE Err([kind |-> "InvalidKeyLength", len |-> KEY_LENGTH])

\* Curve25519PublicKey::from_slice
Curve25519PublicKey_from_slice(slice) ==
    LET key_len == Len(slice)
    IN IF key_len = KEY_LENGTH
       THEN Ok([type |-> "Curve25519PublicKey", inner |-> slice])
       ELSE Err([kind |-> "InvalidKeyLength", len |-> key_len])

\* Curve25519PublicKey::from_base64
Curve25519PublicKey_from_base64(base64_key) ==
    LET key == base64_decode(base64_key)
    IN IF ~key.ok THEN key ELSE Curve25519PublicKey_from_slice(key.value)

\* Curve25519PublicKey::to_base64
Curve25519PublicKey_to_base64(self) == base64_encode(self.inner)

\* ------------------------------------------------------------------------
\* Ed25519 keys of ed25519_dalek
\* ------------------------------------------------------------------------

SECRET_KEY_LENGTH == 32

KEYPAIR_LENGTH == SECRET_KEY_LENGTH + PUBLIC_KEY_LENGTH

\* The public key of a secret key: a fixed function of the secret bytes,
\* which stands for the hashing and the scalar multiplication.
Ed25519_public(secret) ==
    [i \in 1 .. PUBLIC_KEY_LENGTH |-> (secret[i] + 2 * i) % ByteBase]

\* A 32-byte string that is not the encoding of a point of the curve.
NotAPoint == Rep(PUBLIC_KEY_LENGTH, ByteBase - 1)

\* PublicKey::from_bytes / VerifyingKey::from_bytes: fails when the bytes
\* do not decompress to a point.
VerifyingKey_from_bytes(bytes) ==
    IF bytes = NotAPoint
    THEN Err([kind |-> "Signature"])
    ELSE Ok(bytes)

\* Keypair::generate, with the bytes the generator returns
Keypair_generate(random) == [secret |-> random, public |-> Ed25519_public(random)]

\* Keypair::to_bytes: the secret key followed by the public key
Keypair_to_bytes(keypair) == keypair.secret \o keypair.public

\* Keypair::from_bytes: checks the length and that the last 32 bytes are a
\* point; it does not check that they are the public key of the first 32.
Keypair_from_bytes(bytes) ==
    IF Len(bytes) # KEYPAIR_LENGTH
    THEN Err([kind |-> "Signature"])
    ELSE LET public == VerifyingKey_from_bytes(
                           SubSeq(bytes, SECRET_KEY_LENGTH + 1, KEYPAIR_LENGTH))
         IN IF ~public.ok
            THEN public
            ELSE Ok([secret |-> SubSeq(bytes, 1, SECRET_KEY_LENGTH),
                     public |-> public.value])

\* SigningKey::from_bytes: the secret bytes and the verifying key derived
\* from them
SigningKey_from_bytes(bytes) ==
    [secret_key |-> bytes, verifying_key |-> Ed25519_public(bytes)]

\* SigningKey::verifying_key
verifying_key(signing) == signing.verifying_key

\* What the storage of a SigningKey may hold once it is dropped: zeroes
\* when ed25519_dalek is built with its zeroize feature, the key otherwise.
SigningKey_drop(signing) ==
    {[signing EXCEPT !.secret_key = Rep(SECRET_KEY_LENGTH, 0)], signing}

\* Signature::try_from(&[u8]): any 64 bytes
Signature_try_from(bytes) ==
    IF Len(bytes) = SIGNATURE_LENGTH
    THEN Ok(bytes)
    ELSE Err([kind |-> "Signature"])

\* ------------------------------------------------------------------------
\* Ed25519Keypair and its pickle (types.rs)
\* ------------------------------------------------------------------------

\* Ed25519Keypair::new(), with the bytes the generator returns
types_Ed25519Keypair_new(random) ==
    LET keypair == Keypair_generate(random)
    IN [type |-> "types::Ed25519Keypair", inner |-> keypair,
        encoded_public_key |-> base64_encode(keypair.public)]

\* Clone for Ed25519Keypair
types_Ed25519Keypair_clone(self) ==
    [type |-> "types::Ed25519Keypair",
     inner |-> Keypair_from_bytes(Keypair_to_bytes(self.inner)).value,
     encoded_public_key |-> self.encoded_public_key]

\* From<Ed25519Keypair> for Ed25519KeypairPickle
types_Ed25519KeypairPickle_from(key) ==
    [type |-> "types::Ed25519KeypairPickle", bytes |-> Keypair_to_bytes(key.inner)]

\* #[derive(Zeroize)] #[zeroize(drop)] of Ed25519KeypairPickle(Vec<u8>):
\* the bytes the buffer of the vector holds afterwards.
types_Ed25519KeypairPickle_drop(pickle) ==
    [pickle EXCEPT !.bytes = Rep(Len(pickle.bytes), 0)]

\* TryFrom<Ed25519KeypairPickle> for Ed25519Keypair: the Result, and the
\* bytes of the container once it is dropped at the end of the call.
types_Ed25519Keypair_try_from(pickle) ==
    LET keypair == Keypair_from_bytes(pickle.bytes)
    IN [value |-> IF ~keypair.ok
                  THEN keypair
                  ELSE Ok([type |-> "types::Ed25519Keypair",
                           inner |-> keypair.value,
                           encoded_public_key |-> base64_encode(pickle.bytes)]),
        released |-> types_Ed25519KeypairPickle_drop(pickle)]

\* ------------------------------------------------------------------------
\* Ed25519 key types (types/ed25519.rs)
\* ------------------------------------------------------------------------

\* Ed25519Keypair::new(), with the bytes the generator returns
ed25519_Ed25519Keypair_new(random) ==
    LET signing == SigningKey_from_bytes(random)
        verifying == verifying_key(signing)
    IN [type |-> "ed25519::Ed25519Keypair", secret_key |-> signing,
        public_key |-> verifying]

\* Ed25519Keypair::from_secret_key
ed25519_Ed25519Keypair_from_secret_key(bytes) ==
    LET signing == SigningKey_from_bytes(bytes)
        verifying == verifying_key(signing)
    IN [type |-> "ed25519::Ed25519Keypair", secret_key |-> signing,
        public_key |-> verifying]

\* Clone for Ed25519Keypair
ed25519_Ed25519Keypair_clone(self) ==
    [type |-> "ed25519::Ed25519Keypair", secret_key |-> self.secret_key,
     public_key |-> self.public_key]

\* From<Ed25519Keypair> for Ed25519KeypairPickle
ed25519_Ed25519KeypairPickle_from(key) ==
    [type |-> "ed25519::Ed25519KeypairPickle", signing |-> key.secret_key]

\* Ed25519KeypairPickle(SigningKey) has no Drop and no Zeroize of its own:
\* dropping it drops the SigningKey.  What the container may hold after.
ed25519_Ed25519KeypairPickle_drop(pickle) ==
    {[pickle EXCEPT !.signing = after] : after \in SigningKey_drop(pickle.signing)}

\* From<Ed25519KeypairPickle> for Ed25519Keypair: the keypair, and what is
\* left of the container: the SigningKey is moved out of it into the
\* keypair, so nothing of it is dropped.
ed25519_Ed25519Keypair_from(pickle) ==
    LET secret_key == pickle.signing
        public_key == verifying_key(secret_key)
    IN [value |-> [type |-> "ed25519::Ed25519Keypair",
                   secret_key |-> secret_key, public_key |-> public_key],
        released |-> [type |-> "ed25519::Ed25519KeypairPickle", moved |-> TRUE]]

\* Ed25519PublicKey::from_slice
Ed25519PublicKey_from_slice(bytes) ==
    LET key == VerifyingKey_from_bytes(bytes)
    IN IF ~key.ok
       THEN key
       ELSE Ok([type |-> "Ed25519PublicKey", inner |-> key.value])

\* Variant of Ed25519PublicKey::from_base64 that expects the length of a
\* signature.
Ed25519PublicKey_from_base64_signature_length(base64_key) ==
    LET key == base64_decode(base64_key)
    IN IF ~key.ok
       THEN key
       ELSE IF Len(key.value) # SIGNATURE_LENGTH
       THEN Err([kind |-> "InvalidKeyLength", len |-> 32])
       ELSE Ed25519PublicKey_from_slice(key.value)

\* Ed25519PublicKey::from_base64
Ed25519PublicKey_from_base64(base64_key) ==
    LET key == base64_decode(base64_key)
    IN IF ~key.ok
       THEN key
       ELSE IF Len(key.value) # 32
       THEN Err([kind |-> "InvalidKeyLength", len |-> 32])
       ELSE Ed25519PublicKey_from_slice(key.value)

\* Ed25519PublicKey::to_base64
Ed25519PublicKey_to_base64(self) == base64_encode(self.inner)

\* Ed25519Signature::from_slice
Ed25519Signature_from_slice(bytes) ==
    LET signature == Signature_try_from(bytes)
    IN IF ~signature.ok
       THEN signature
       ELSE Ok([type |-> "Ed25519Signature", inner |-> signature.value])

\* Ed25519Signature::from_base64
Ed25519Signature_from_base64(signature) ==
    LET bytes == base64_decode(signature)
    IN IF ~bytes.ok THEN bytes ELSE Ed25519Signature_from_slice(bytes.value)

\* Ed25519Signature::to_base64
Ed25519Signature_to_base64(self) == base64_encode(self.inner)

\* ------------------------------------------------------------------------
\* State machine of one session object
\* ------------------------------------------------------------------------

VARIABLES
    session,    \* None before construction, Some(InboundGroupSession) after
    call,       \* the most recent call: the operation, the session before
                \* it, what it returned, and of its input the whole session
                \* key (new) or the index the message declares (decrypt)
    held,       \* the value of the key types in hand: None, or Some keypair,
                \* pickle, public key, signature or base64 text
    last,       \* the most recent operation of the key types: its name,
                \* the value it was applied to and what it returned
    released    \* None, or Some of what the storage of the pickle container
                \* released most recently holds

session_vars == <<session, call>>

key_vars == <<held, last, released>>

vars == <<session, call, held, last, released>>

\* No value of the key types exists.
NoKeys ==
    /\ held = None
    /\ last = [op |-> "none"]
    /\ released = None

Init ==
    /\ session = None
    /\ call = [op |-> "none"]
    /\ NoKeys

\* InboundGroupSession::new(session_key)
New(session_key) ==
    /\ call.op = "none"
    /\ LET out == InboundGroupSession_new(session_key)
       IN /\ session' = out.session
          /\ call' = [op |-> "new", input |-> session_key, before |-> session,
                      result |-> out]
    /\ UNCHANGED key_vars

\* session.decrypt(ciphertext)
Decrypt(ciphertext) ==
    /\ session.some
    /\ LET out == decrypt(session.value, ciphertext)
       IN /\ session' = Some(out.session)
          /\ call' = [op |-> "decrypt", declared |-> declared_index(ciphertext),
                      before |-> session.value, result |-> out.result]
    /\ UNCHANGED key_vars

\* session.export_at(): the body is todo!(), so the call panics before it
\* reads or writes the session.  The unwinding leaves the session as it was,
\* and a caller that catches the panic can go on using it.
ExportAt ==
    /\ session.some
    /\ LET out == export_at(session.value)
       IN /\ session' = Some(out.session)
          /\ call' = [op |-> "export_at", before |-> session.value,
                      result |-> out.result]
    /\ UNCHANGED key_vars

Next ==
    \/ \E session_key \in SessionKeys : New(session_key)
    \/ \E ciphertext \in Ciphertexts : Decrypt(ciphertext)
    \/ ExportAt

Spec == Init /\ [][Next]_vars

\* ------------------------------------------------------------------------
\* State machine of one value of the key types
\* ------------------------------------------------------------------------

\* The 32-byte strings a random generator returns or a caller passes as a
\* secret: two clamped scalars, and the bytes "000..0" of the tests, which
\* are not a clamped scalar.
RandomBytes ==
    {Rep(SECRET_KEY_LENGTH, 64), Rep(SECRET_KEY_LENGTH, 72),
     Rep(SECRET_KEY_LENGTH, 48)}

\* The `public` fields a stored Curve25519 pickle may carry.
Curve25519PublicBytes ==
    {PublicKey_from_secret(StaticSecret_from(random)) : random \in RandomBytes}
    \cup {Rep(KEY_LENGTH, 48)}

\* The values serde can deserialize a Curve25519KeypairPickle from.
Curve25519KeypairPickles ==
    [type : {"Curve25519KeypairPickle"}, secret : RandomBytes,
     public : Curve25519PublicBytes]

\* The values serde can deserialize an Ed25519KeypairPickle of types.rs
\* from: 64 bytes whose halves do or do not belong together or whose second
\* half is not a point, and byte vectors of other lengths.
types_Ed25519KeypairPickles ==
    [type : {"types::Ed25519KeypairPickle"},
     bytes : {secret \o public :
                 secret \in RandomBytes,
                 public \in {Ed25519_public(random) : random \in RandomBytes}
                            \cup {NotAPoint}}
             \cup {<<>>, Rep(SECRET_KEY_LENGTH, 64)}]

\* The values serde can deserialize an Ed25519KeypairPickle of ed25519.rs
\* from.
ed25519_Ed25519KeypairPickles ==
    {[type |-> "ed25519::Ed25519KeypairPickle",
      signing |-> SigningKey_from_bytes(random)] : random \in RandomBytes}

\* 64-byte strings
SignatureBytes == {Rep(SIGNATURE_LENGTH, 0), Rep(SIGNATURE_LENGTH, 48) }

\* The texts passed to from_base64: the texts of the tests of types.rs,
\* and the base64 of 32-byte and 64-byte strings.
Base64Texts ==
    {<<Symbol_a>>, <<Symbol_a, InvalidSymbol>>, <<Symbol_a, Symbol_Z>>,
     <<Symbol_a, Symbol_a, Symbol_a, Symbol_a>>,
     <<Symbol_a, InvalidSymbol, Symbol_a, Symbol_a, Symbol_a>>}
    \cup {base64_encode(bytes) :
             bytes \in Curve25519PublicBytes \cup SignatureBytes
                       \cup {NotAPoint, Ed25519_public(Rep(SECRET_KEY_LENGTH, 64))}}

KeyInit ==
    /\ session = None
    /\ call = [op |-> "none"]
    /\ NoKeys

\* An operation that returns a value and releases no pickle container.
Returns(op, input, result, value) ==
    /\ last' = [op |-> op, before |-> held, input |-> input, result |-> result]
    /\ held' = value
    /\ UNCHANGED released
    /\ UNCHANGED session_vars

Curve25519KeypairNew(random) ==
    /\ held = None
    /\ LET out == Curve25519Keypair_new(random)
       IN Returns("Curve25519Keypair::new", random, out, Some(out))

types_Ed25519KeypairNew(random) ==
    /\ held = None
    /\ LET out == types_Ed25519Keypair_new(random)
       IN Returns("types::Ed25519Keypair::new", random, out, Some(out))

ed25519_Ed25519KeypairNew(random) ==
    /\ held = None
    /\ LET out == ed25519_Ed25519Keypair_new(random)
       IN Returns("ed25519::Ed25519Keypair::new", random, out, Some(out))

ed25519_Ed25519KeypairFromSecretKey(bytes) ==
    /\ held = None
    /\ LET out == ed25519_Ed25519Keypair_from_secret_key(bytes)
       IN Returns("ed25519::Ed25519Keypair::from_secret_key", bytes, out, Some(out))

\* serde hands over a stored pickle.
Deserialize(pickle) ==
    /\ held = None
    /\ Returns("deserialize", pickle, pickle, Some(pickle))

HeldIs(type) == held.some /\ held.value.type = type

\* keypair.clone(), for the three keypair types
Clone ==
    \/ /\ HeldIs("Curve25519Keypair")
       /\ LET out == Curve25519Keypair_clone(held.value)
          IN Returns("clone", None, out, Some(out))
    \/ /\ HeldIs("types::Ed25519Keypair")
       /\ LET out == types_Ed25519Keypair_clone(held.value)
          IN Returns("clone", None, out, Some(out))
    \/ /\ HeldIs("ed25519::Ed25519Keypair")
       /\ LET out == ed25519_Ed25519Keypair_clone(held.value)
          IN Returns("clone", None, out, Some(out))

\* Pickle::from(keypair), for the three keypair types
Pickle ==
    \/ /\ HeldIs("Curve25519Keypair")
       /\ LET out == Curve25519KeypairPickle_from(held.value)
          IN Returns("pickle", None, out, Some(out))
    \/ /\ HeldIs("types::Ed25519Keypair")
       /\ LET out == types_Ed25519KeypairPickle_from(held.value)
          IN Returns("pickle", None, out, Some(out))
    \/ /\ HeldIs("ed25519::Ed25519Keypair")
       /\ LET out == ed25519_Ed25519KeypairPickle_from(held.value)
          IN Returns("pickle", None, out, Some(out))

\* Keypair::from(pickle) / Keypair::try_from(pickle): the pickle container
\* is consumed.
Unpickle ==
    /\ UNCHANGED session_vars
    /\ \/ /\ HeldIs("Curve25519KeypairPickle")
          /\ LET out == Curve25519Keypair_from(held.value)
             IN /\ last' = [op |-> "unpickle", before |-> held, input |-> None,
                            result |-> out.value]
                /\ held' = Some(out.value)
                /\ released' = Some(out.released)
       \/ /\ HeldIs("types::Ed25519KeypairPickle")
          /\ LET out == types_Ed25519Keypair_try_from(held.value)
             IN /\ last' = [op |-> "unpickle", before |-> held, input |-> None,
                            result |-> out.value]
                /\ held' = IF out.value.ok THEN Some(out.value.value) ELSE None
                /\ released' = Some(out.released)
       \/ /\ HeldIs("ed25519::Ed25519KeypairPickle")
          /\ LET out == ed25519_Ed25519Keypair_from(held.value)
             IN /\ last' = [op |-> "unpickle", before |-> held, input |-> None,
                            result |-> out.value]
                /\ held' = Some(out.value)
                /\ released' = Some(out.released)

\* A pickle container is discarded without being used.
DropPickle ==
    /\ UNCHANGED session_vars
    /\ held' = None
    /\ last' = [op |-> "drop", before |-> held, input |-> None, result |-> None]
    /\ \/ /\ HeldIs("Curve25519KeypairPickle")
          /\ released' = Some(Curve25519KeypairPickle_drop(held.value))
       \/ /\ HeldIs("types::Ed25519KeypairPickle")
          /\ released' = Some(types_Ed25519KeypairPickle_drop(held.value))
       \/ /\ HeldIs("ed25519::Ed25519KeypairPickle")
          /\ \E after \in ed25519_Ed25519KeypairPickle_drop(held.value) :
                released' = Some(after)

\* keypair.public_key() of Curve25519Keypair and of the Ed25519Keypair of
\* ed25519.rs
PublicKeyOf ==
    \/ /\ HeldIs("Curve25519Keypair")
       /\ LET out == [type |-> "Curve25519PublicKey",
                      inner |-> held.value.public_key]
          IN Returns("public_key", None, out, Some(out))
    \/ /\ HeldIs("ed25519::Ed25519Keypair")
       /\ LET out == [type |-> "Ed25519PublicKey",
                      inner |-> held.value.public_key]
          IN Returns("public_key", None, out, Some(out))

\* key.to_base64() / signature.to_base64(); the text in hand is kept
\* together with the value it was made of.
ToBase64 ==
    \/ /\ HeldIs("Curve25519PublicKey")
       /\ LET out == [type |-> "text", of |-> held.value,
                      text |-> Curve25519PublicKey_to_base64(held.value)]
          IN Returns("to_base64", None, out.text, Some(out))
    \/ /\ HeldIs("Ed25519PublicKey")
       /\ LET out == [type |-> "text", of |-> held.value,
                      text |-> Ed25519PublicKey_to_base64(held.value)]
          IN Returns("to_base64", None, out.text, Some(out))
    \/ /\ HeldIs("Ed25519Signature")
       /\ LET out == [type |-> "text", of |-> held.value,
                      text |-> Ed25519Signature_to_base64(held.value)]
          IN Returns("to_base64", None, out.text, Some(out))

\* The text a from_base64 is applied to: the text in hand, or any text of
\* the alphabet when nothing is in hand.
TextsAtHand ==
    IF held = None THEN Base64Texts
    ELSE IF held.value.type = "text" THEN {held.value.text}
    ELSE {}

FromBase64Result(op, text, out) ==
    Returns(op, text, out, IF out.ok THEN Some(out.value) ELSE None)

Curve25519PublicKeyFromBase64 ==
    \E text \in TextsAtHand :
        FromBase64Result("Curve25519PublicKey::from_base64", text,
                         Curve25519PublicKey_from_base64(text))

Ed25519PublicKeyFromBase64 ==
    \E text \in TextsAtHand :
        FromBase64Result("Ed25519PublicKey::from_base64", text,
                         Ed25519PublicKey_from_base64(text))

Ed25519SignatureFromBase64 ==
    \E text \in TextsAtHand :
        FromBase64Result("Ed25519Signature::from_base64", text,
                         Ed25519Signature_from_base64(text))

\* The value in hand, which is not a pickle container, goes out of use.
Discard ==
    /\ held.some
    /\ held.value.type \notin {"Curve25519KeypairPickle",
                               "types::Ed25519KeypairPickle",
                               "ed25519::Ed25519KeypairPickle"}
    /\ Returns("discard", None, None, None)

KeyNext ==
    \/ \E random \in RandomBytes : Curve25519KeypairNew(random)
    \/ \E random \in RandomBytes : types_Ed25519KeypairNew(random)
    \/ \E random \in RandomBytes : ed25519_Ed25519KeypairNew(random)
    \/ \E bytes \in RandomBytes : ed25519_Ed25519KeypairFromSecretKey(bytes)
    \/ \E pickle \in Curve25519KeypairPickles \cup types_Ed25519KeypairPickles
                     \cup ed25519_Ed25519KeypairPickles : Deserialize(pickle)
    \/ Clone
    \/ Pickle
    \/ Unpickle
    \/ DropPickle
    \/ PublicKeyOf
    \/ ToBase64
    \/ Curve25519PublicKeyFromBase64
    \/ Ed25519PublicKeyFromBase64
    \/ Ed25519SignatureFromBase64
    \/ Discard

KeySpec == KeyInit /\ [][KeyNext]_vars

\* ------------------------------------------------------------------------
\* Properties
\* ------------------------------------------------------------------------

\* The two ratchets and the signing key of the constructed session.
initial_ratchet == session.value.initial_ratchet

latest_ratchet == session.value.latest_ratchet

signing_key == session.value.signing_key

\* The most recent call was a decrypt that returned the given kind.
Decrypted(kind) == call.op = "decrypt" /\ call.result.kind = kind

\* C1: in every state of a constructed session, whatever decrypt calls were
\* made, initial_ratchet.index() <= latest_ratchet.index().
C1_InitialNotAboveLatest ==
    session.some => Ratchet_index(initial_ratchet) <= Ratchet_index(latest_ratchet)

\* A decrypt at an index strictly between the two ratchets has just moved
\* latest_ratchet down, and it is still above initial_ratchet.
C1_Witness ==
    /\ call.op = "decrypt"
    /\ Ratchet_index(call.before.latest_ratchet) > Ratchet_index(latest_ratchet)
    /\ Ratchet_index(latest_ratchet) > Ratchet_index(initial_ratchet)

\* The index the message of the most recent decrypt declares.
declared == call.declared.value

\* The signature of a message verifies under the session's signing key.
SignatureOk(self, message) ==
    verify(self.signing_key, bytes_for_signing(message), message_signature(message))

\* C2: a decodable message that passes signature verification and declares
\* an index below initial_ratchet.index() fails with
\* UnknownMessageIndex(initial_ratchet.index(), declared index), and the
\* session after the call is the session before it.
C2_UnknownIndexRejected ==
    /\ session.some =>
         \A message \in Ciphertexts :
             ( /\ message.form = "message"
               /\ SignatureOk(session.value, message)
               /\ message.message_index < Ratchet_index(initial_ratchet) )
             => LET out == decrypt(session.value, message)
                IN /\ out.result.kind = "UnknownMessageIndex"
                   /\ out.result.first_known = Ratchet_index(initial_ratchet)
                   /\ out.result.requested = message.message_index
                   /\ out.session = session.value
    /\ ( /\ call.op = "decrypt"
         /\ call.declared.some
         /\ call.result.kind # "Signature"
         /\ declared < Ratchet_index(call.before.initial_ratchet) )
       => /\ call.result.kind = "UnknownMessageIndex"
          /\ call.result.first_known = Ratchet_index(call.before.initial_ratchet)
          /\ call.result.requested = declared
          /\ session.value = call.before

\* A session whose latest_ratchet had moved ahead has just rejected a
\* message below its initial index.
C2_Witness ==
    /\ Decrypted("UnknownMessageIndex")
    /\ declared < Ratchet_index(initial_ratchet)
    /\ Ratchet_index(call.before.latest_ratchet)
           > Ratchet_index(call.before.initial_ratchet)

\* C3 as stated: a decrypt that fails MAC verification leaves latest_ratchet
\* (index and key bytes) as it was before the call.
C3_MacFailureLeavesLatest ==
    Decrypted("InvalidMAC") => latest_ratchet = call.before.latest_ratchet

\* C3 amended: a decrypt that fails MAC verification leaves initial_ratchet
\* and signing_key as they were, and leaves latest_ratchet as the ratchet
\* lookup that ran before the MAC check left it: unchanged when the declared
\* index is initial_ratchet's or latest_ratchet's, latest_ratchet advanced
\* to the declared index when that is above latest_ratchet's, and a copy of
\* initial_ratchet advanced to the declared index when it lies between.
C3_MacFailureKeepsLookupEffect ==
    Decrypted("InvalidMAC") =>
        /\ initial_ratchet = call.before.initial_ratchet
        /\ signing_key = call.before.signing_key
        /\ declared >= Ratchet_index(call.before.initial_ratchet)
        /\ latest_ratchet =
             IF \/ declared = Ratchet_index(call.before.initial_ratchet)
                \/ declared = Ratchet_index(call.before.latest_ratchet)
             THEN call.before.latest_ratchet
             ELSE IF declared > Ratchet_index(call.before.latest_ratchet)
             THEN Ratchet_advance_to(call.before.latest_ratchet, declared)
             ELSE Ratchet_advance_to(call.before.initial_ratchet, declared)

\* A MAC failure at an index above latest_ratchet has advanced it.
C3_Witness ==
    /\ Decrypted("InvalidMAC")
    /\ declared > Ratchet_index(call.before.latest_ratchet)
    /\ Ratchet_index(latest_ratchet) = declared
    /\ Ratchet_as_bytes(latest_ratchet) # Ratchet_as_bytes(call.before.latest_ratchet)

\* C4: a message whose signature does not verify under the session's
\* signing key is rejected with the signature error before any ratchet
\* lookup, and the session is left as it was, whatever index it declares.
C4_BadSignatureLeavesSession ==
    /\ session.some =>
         \A message \in Ciphertexts :
             (message.form = "message" /\ ~SignatureOk(session.value, message))
             => LET out == decrypt(session.value, message)
                IN /\ out.result.kind = "Signature"
                   /\ out.session = session.value
    /\ Decrypted("Signature") =>
         /\ session.value = call.before
         /\ \A i \in 1 .. Len(call.result.steps) :
                call.result.steps[i] # "find_ratchet"

\* A badly signed message that declares an index above latest_ratchet has
\* just been rejected by a session whose ratchets are apart.
C4_Witness ==
    /\ Decrypted("Signature")
    /\ declared > Ratchet_index(call.before.latest_ratchet)
    /\ Ratchet_index(latest_ratchet) > Ratchet_index(initial_ratchet)

\* A message the sender of the session key produces for the given index:
\* signed with the session's key, MAC computed under the key bytes of the
\* sender's ratchet (the session key's seed hashed forward to that index).
AuthenticMessage(self, message_index) ==
    [form |-> "message", message_index |-> message_index,
     signer |-> self.signing_key,
     mac_key |-> <<self.initial_ratchet.seed,
                   message_index - Ratchet_index(self.initial_ratchet)>>,
     padding_ok |-> TRUE]

\* C5: once the session is constructed, no decrypt call changes
\* initial_ratchet (index or key bytes) or signing_key; of the three fields
\* only latest_ratchet may differ after a call.
C5_InitialAndKeyNeverChange ==
    [][session.some =>
          /\ session'.some
          /\ session'.value.initial_ratchet = session.value.initial_ratchet
          /\ session'.value.signing_key = session.value.signing_key]_vars

\* A decrypt between the two ratchets has just replaced latest_ratchet by an
\* advanced copy of initial_ratchet, which itself is as it was.
C5_Witness ==
    /\ call.op = "decrypt"
    /\ call.declared.some
    /\ Ratchet_index(call.before.initial_ratchet) < declared
    /\ declared < Ratchet_index(call.before.latest_ratchet)
    /\ latest_ratchet = Ratchet_advance_to(initial_ratchet, declared)
    /\ initial_ratchet = call.before.initial_ratchet

\* The session a well-formed, correctly signed session key with starting
\* index 0 constructs.
SessionAtZero ==
    InboundGroupSession_new(
        [base64_ok |-> TRUE, len |-> SignatureEnd, version |-> SESSION_KEY_VERSION,
         index |-> <<0, 0, 0, 0>>, ratchet |-> "seedA", public_key |-> "keyA",
         signature |-> [wellformed |-> TRUE, signer |-> "keyA",
                        covers |-> {Prefix(PublicKeyEnd)}]]).session.value

\* The results of decrypting the sender's messages at the given indices,
\* one after the other, starting from session `self`.
RECURSIVE DecryptAll(_, _)
DecryptAll(self, indices) ==
    IF indices = <<>>
    THEN <<>>
    ELSE LET out == decrypt(self, AuthenticMessage(self, Head(indices)))
         IN <<out.result>> \o DecryptAll(out.session, Tail(indices))

\* C6: the session has no terminal state.  After any sequence of decrypt
\* calls, the sender's message at any index >= initial_ratchet.index()
\* decrypts successfully; UnknownMessageIndex is returned only for an index
\* below initial_ratchet's; and for a session that starts at index 0,
\* decrypting at 5, then 3, then 0, then 0 again succeeds each time.
C6_NoTerminalState ==
    /\ session.some =>
         \A m \in MsgIndices :
             m >= Ratchet_index(initial_ratchet)
             => decrypt(session.value, AuthenticMessage(session.value, m)).result.kind
                    = "Ok"
    /\ Decrypted("UnknownMessageIndex")
         => declared < Ratchet_index(call.before.initial_ratchet)
    /\ \A i \in 1 .. 4 :
           /\ DecryptAll(SessionAtZero, <<5, 3, 0, 0>>)[i].kind = "Ok"
           /\ DecryptAll(SessionAtZero, <<5, 3, 0, 0>>)[i].message_index
                  = <<5, 3, 0, 0>>[i]

\* A session that starts at index 0 and whose latest_ratchet stands at 3
\* has just decrypted a message at index 0.
C6_Witness ==
    /\ Decrypted("Ok")
    /\ declared = 0
    /\ Ratchet_index(initial_ratchet) = 0
    /\ Ratchet_index(latest_ratchet) = 3
    /\ Ratchet_index(call.before.latest_ratchet) = 3

\* C7: right after a successful decrypt of a message at index N,
\* latest_ratchet.index() >= N.
C7_LatestNotBelowDecrypted ==
    Decrypted("Ok") =>
        /\ call.result.message_index = declared
        /\ Ratchet_index(latest_ratchet) >= call.result.message_index

\* A successful decrypt at an index between the two ratchets: latest_ratchet
\* has come down to exactly that index.
C7_Witness ==
    /\ Decrypted("Ok")
    /\ Ratchet_index(call.before.initial_ratchet) < declared
    /\ declared < Ratchet_index(call.before.latest_ratchet)
    /\ Ratchet_index(latest_ratchet) = declared

\* C8: in every reachable session state the ratchet lookup for an index
\* >= initial_ratchet.index() returns a ratchet whose index is exactly the
\* requested one, and it returns no ratchet exactly when the index is below
\* initial_ratchet.index().
C8_LookupReturnsRequestedIndex ==
    session.some =>
        \A m \in MsgIndices :
            LET found == find_ratchet(session.value, m).ratchet
            IN /\ m >= Ratchet_index(initial_ratchet)
                  => found.some /\ Ratchet_index(found.value) = m
               /\ ~found.some <=> m < Ratchet_index(initial_ratchet)

\* A session with indices below initial_ratchet, between the two ratchets
\* and above latest_ratchet, reached by a decrypt call.
C8_Witness ==
    /\ call.op = "decrypt"
    /\ Ratchet_index(initial_ratchet) >= 1
    /\ Ratchet_index(latest_ratchet) >= Ratchet_index(initial_ratchet) + 2
    /\ Ratchet_index(latest_ratchet) < MaxIndex

\* The most recent call was new() on a session key that decoded, held all
\* five fields and the supported version, and whose public key and
\* signature fields parsed: the signature verification decides the result.
ReachedVerification ==
    /\ call.op = "new"
    /\ call.input.base64_ok
    /\ call.input.len >= SignatureEnd
    /\ call.input.version = SESSION_KEY_VERSION
    /\ PublicKey_from_bytes(call.input.public_key).some
    /\ Signature_from_bytes(call.input.signature).some

\* C9 as stated: for a decoded session key of 229 bytes or more, the
\* signature of bytes [165,229) is verified over exactly bytes [0,165) with
\* the public key of bytes [133,165), and construction succeeds exactly
\* when that verification does.
C9_SignatureOverFirst165Bytes ==
    ReachedVerification =>
        ( call.result.kind = "Ok"
          <=> verify(call.input.public_key, Prefix(PublicKeyEnd),
                     call.input.signature) )

\* The checks of new() in the order the code makes them.
NewSteps ==
    <<"base64_decode", "read_version", "version", "read_index", "read_ratchet",
      "read_public_key", "read_signature", "public_key", "signature", "verify">>

\* Whether the given check passes on a session key.
StepPasses(session_key, step) ==
    CASE step = "base64_decode" -> session_key.base64_ok
      [] step = "read_version" -> session_key.len >= VersionEnd
      [] step = "version" -> session_key.version = SESSION_KEY_VERSION
      [] step = "read_index" -> session_key.len >= IndexEnd
      [] step = "read_ratchet" -> session_key.len >= RatchetEnd
      [] step = "read_public_key" -> session_key.len >= PublicKeyEnd
      [] step = "read_signature" -> session_key.len >= SignatureEnd
      [] step = "public_key" -> session_key.public_key \in PubKeys
      [] step = "signature" -> session_key.signature.wellformed
      [] step = "verify" -> verify(session_key.public_key,
                                   signed_region(session_key.len),
                                   session_key.signature)

\* The error a failing check reports.
StepError(step) ==
    CASE step = "base64_decode" -> "Base64"
      [] step \in {"read_version", "read_index", "read_ratchet",
                   "read_public_key", "read_signature"} -> "Read"
      [] step = "version" -> "Version"
      [] step \in {"public_key", "signature", "verify"} -> "Signature"

\* C10 as stated: all five fields are read before the version is checked,
\* so a decoded session key too short to hold them fails with the
\* truncation error whatever its version byte is.
C10_ShortKeyAlwaysTruncated ==
    (call.op = "new" /\ call.input.base64_ok /\ call.input.len < SignatureEnd)
    => call.result.kind = "Read"

\* C10 amended: new() checks in the order base64 decode, read of the version
\* byte, version check, reads of index, ratchet seed, public key and
\* signature, public-key construction, signature construction, signature
\* verification, and reports the error of the first check that fails.  A
\* decoded session key too short to hold the five fields fails with the
\* version error when it is not empty and its version byte is not the
\* supported one, and with the truncation error otherwise.
C10_ChecksInCodeOrder ==
    call.op = "new" =>
        LET failing == {i \in 1 .. Len(NewSteps) :
                            ~StepPasses(call.input, NewSteps[i])}
            first == CHOOSE i \in failing : \A j \in failing : i <= j
        IN /\ failing = {} => call.result.kind = "Ok" /\ session.some
           /\ failing # {} =>
                /\ call.result.step = NewSteps[first]
                /\ call.result.kind = StepError(NewSteps[first])
                /\ ~session.some
           /\ (call.input.base64_ok /\ call.input.len < SignatureEnd) =>
                call.result.kind =
                    IF /\ call.input.len >= VersionEnd
                       /\ call.input.version # SESSION_KEY_VERSION
                    THEN "Version"
                    ELSE "Read"

\* A session key that stops in the middle of its fields and carries another
\* version byte has just been rejected with the version error.
C10_Witness ==
    /\ call.op = "new"
    /\ call.input.base64_ok
    /\ call.input.len >= IndexEnd
    /\ call.input.len < SignatureEnd
    /\ call.input.version # SESSION_KEY_VERSION
    /\ call.result.kind = "Version"
    /\ call.result.actual = call.input.version

\* C11: when the version byte of a decoded session key is not
\* SESSION_KEY_VERSION, construction fails with the version error, which
\* carries the supported version first and the byte read second, and no
\* session is produced.
C11_VersionErrorExpectedThenActual ==
    ( /\ call.op = "new"
      /\ call.input.base64_ok
      /\ call.input.len >= VersionEnd
      /\ call.input.version # SESSION_KEY_VERSION )
    => /\ call.result.kind = "Version"
       /\ call.result.expected = SESSION_KEY_VERSION
       /\ call.result.actual = call.input.version
       /\ call.result.session = None
       /\ ~session.some

\* A complete, validly signed session key with another version byte has just
\* been rejected.
C11_Witness ==
    /\ call.op = "new"
    /\ call.input.base64_ok
    /\ call.input.len = SignatureEnd
    /\ call.input.version = SESSION_KEY_VERSION + 1
    /\ call.input.public_key \in PubKeys
    /\ call.input.signature.wellformed
    /\ call.result.kind = "Version"
    /\ call.result.expected # call.result.actual
    /\ ~session.some

\* C12: on successful construction initial_ratchet and latest_ratchet are
\* equal; both hold the seed of bytes [5,133) with the index that is the
\* little-endian value of bytes [1,5), and signing_key is the key parsed
\* from bytes [133,165).
C12_SuccessfulConstruction ==
    (call.op = "new" /\ call.result.kind = "Ok")
    => /\ session.some
       /\ session = call.result.session
       /\ latest_ratchet = initial_ratchet
       /\ initial_ratchet = Ratchet_from_bytes(call.input.ratchet,
                                               Ratchet_index(initial_ratchet))
       /\ Ratchet_index(initial_ratchet)
            = call.input.index[1]
              + 256 * call.input.index[2]
              + 65536 * call.input.index[3]
              + 16777216 * call.input.index[4]
       /\ Some(signing_key) = PublicKey_from_bytes(call.input.public_key)

\* A session has just been built from a session key whose index bytes are
\* 00 01 00 00: its two ratchets are at index 256.
C12_Witness ==
    /\ call.op = "new"
    /\ call.result.kind = "Ok"
    /\ call.input.index = <<0, 1, 0, 0>>
    /\ Ratchet_index(initial_ratchet) = 256
    /\ Ratchet_index(latest_ratchet) = 256

\* The steps of decrypt() in the order the code runs them.
DecryptSteps ==
    <<"base64_decode", "decode", "verify", "find_ratchet", "verify_mac",
      "cipher_decrypt">>

\* Whether the given step succeeds for a ciphertext on a session.
DecryptStepPasses(self, ciphertext, step) ==
    CASE step = "base64_decode" -> ciphertext.form # "not_base64"
      [] step = "decode" -> ciphertext.form = "message"
      [] step = "verify" -> ciphertext.signer = self.signing_key
      [] step = "find_ratchet" ->
            ciphertext.message_index >= Ratchet_index(self.initial_ratchet)
      [] step = "verify_mac" ->
            LET found == find_ratchet(self, ciphertext.message_index)
            IN /\ found.ratchet.some
               /\ ciphertext.mac_key = Ratchet_as_bytes(found.ratchet.value)
      [] step = "cipher_decrypt" -> ciphertext.padding_ok

\* The error a failing step of decrypt() reports.
DecryptStepError(step) ==
    CASE step = "base64_decode" -> "Base64"
      [] step = "decode" -> "DecodeError"
      [] step = "verify" -> "Signature"
      [] step = "find_ratchet" -> "UnknownMessageIndex"
      [] step = "verify_mac" -> "InvalidMAC"
      [] step = "cipher_decrypt" -> "InvalidCiphertext"

\* C13: decrypt runs base64 decode, message decode, signature verification,
\* ratchet lookup, MAC verification and ciphertext decryption in this
\* order, stops at the first step that fails and returns its error; the
\* MAC is not checked and the ciphertext not decrypted when the signature
\* is invalid or the index unknown, the ciphertext is not decrypted when
\* the MAC is invalid, and a successful call returns the declared index.
C13_DecryptStepsInOrder ==
    /\ session.some =>
         \A ciphertext \in Ciphertexts :
            LET out == decrypt(session.value, ciphertext).result
                failing == {i \in 1 .. Len(DecryptSteps) :
                               ~DecryptStepPasses(session.value, ciphertext,
                                                  DecryptSteps[i])}
                first == CHOOSE i \in failing : \A j \in failing : i <= j
            IN /\ failing = {} =>
                    /\ out.kind = "Ok"
                    /\ out.steps = DecryptSteps
                    /\ out.message_index = ciphertext.message_index
               /\ failing # {} =>
                    /\ out.kind = DecryptStepError(DecryptSteps[first])
                    /\ out.steps = SubSeq(DecryptSteps, 1, first)
    /\ call.op = "decrypt" =>
         LET ran == {call.result.steps[i] : i \in 1 .. Len(call.result.steps)}
         IN /\ call.result.kind \in {"Signature", "UnknownMessageIndex"}
                => "verify_mac" \notin ran /\ "cipher_decrypt" \notin ran
            /\ call.result.kind = "InvalidMAC" => "cipher_decrypt" \notin ran
            /\ call.result.kind = "Ok"
                => call.result.message_index = call.declared.value

\* A call has just failed in the last step: every step before it ran, in
\* order, on a session whose latest ratchet had to be advanced.
C13_Witness ==
    /\ Decrypted("InvalidCiphertext")
    /\ call.result.steps = DecryptSteps
    /\ call.declared.value > Ratchet_index(call.before.latest_ratchet)

\* C20: a ratchet lookup for index m leaves both ratchets unchanged when m
\* is the index of initial_ratchet or of latest_ratchet; advances
\* latest_ratchet in place to index m when m is above its index; and
\* replaces latest_ratchet by a copy of initial_ratchet advanced to m when
\* m lies strictly between the two indices.  initial_ratchet never changes.
C20_LookupEffectOnLatest ==
    /\ session.some =>
         \A m \in MsgIndices :
            LET self == session.value
                after == find_ratchet(self, m).session
                i == Ratchet_index(self.initial_ratchet)
                l == Ratchet_index(self.latest_ratchet)
            IN /\ after.initial_ratchet = self.initial_ratchet
               /\ (m = i \/ m = l) => after = self
               /\ m > l =>
                    /\ after.latest_ratchet
                         = Ratchet_advance_to(self.latest_ratchet, m)
                    /\ Ratchet_index(after.latest_ratchet) = m
               /\ (i < m /\ m < l) =>
                    /\ after.latest_ratchet
                         = Ratchet_advance_to(self.initial_ratchet, m)
                    /\ Ratchet_index(after.latest_ratchet) = m
                    /\ Ratchet_index(after.latest_ratchet) < l
    /\ ( /\ call.op = "decrypt"
         /\ "find_ratchet" \in {call.result.steps[i] :
                                   i \in 1 .. Len(call.result.steps)} )
       => LET m == call.declared.value
              i == Ratchet_index(call.before.initial_ratchet)
              l == Ratchet_index(call.before.latest_ratchet)
          IN /\ (m = i \/ m = l) => session.value = call.before
             /\ (m > l \/ (i < m /\ m < l)) => Ratchet_index(latest_ratchet) = m

\* A message at the initial index has just been decrypted while
\* latest_ratchet was far ahead of it, and latest_ratchet stayed there.
C20_Witness ==
    /\ Decrypted("Ok")
    /\ call.declared.value = Ratchet_index(call.before.initial_ratchet)
    /\ Ratchet_index(call.before.latest_ratchet) >= call.declared.value + 3
    /\ session.value = call.before

\* C14: the export operation terminates normally and returns a
\* session-key-like blob (version, index, ratchet bytes, public key) for
\* every session state.
C14_ExportReturnsBlob ==
    call.op = "export_at" => call.result.kind = "Ok"

\* The three keypair types and their pickle containers.
KeypairTypes ==
    {"Curve25519Keypair", "types::Ed25519Keypair", "ed25519::Ed25519Keypair"}

PickleTypes ==
    {"Curve25519KeypairPickle", "types::Ed25519KeypairPickle",
     "ed25519::Ed25519KeypairPickle"}

\* The secret key bytes and the public key bytes of a keypair.
SecretOf(keypair) ==
    CASE keypair.type = "Curve25519Keypair" ->
            StaticSecret_to_bytes(keypair.secret_key)
      [] keypair.type = "types::Ed25519Keypair" -> keypair.inner.secret
      [] keypair.type = "ed25519::Ed25519Keypair" -> keypair.secret_key.secret_key

PublicOf(keypair) ==
    CASE keypair.type = "Curve25519Keypair" -> keypair.public_key
      [] keypair.type = "types::Ed25519Keypair" -> keypair.inner.public
      [] keypair.type = "ed25519::Ed25519Keypair" -> keypair.public_key

\* The public key that belongs to the secret key of a keypair.
DerivedPublicOf(keypair) ==
    IF keypair.type = "Curve25519Keypair"
    THEN PublicKey_from_secret(keypair.secret_key)
    ELSE Ed25519_public(SecretOf(keypair))

\* C15: the public key of every keypair made by generation, from a secret
\* key, by cloning or by unpickling is the one derived from its private
\* key.
C15_PublicKeyDerivedFromSecret ==
    (held.some /\ held.value.type \in KeypairTypes)
    => PublicOf(held.value) = DerivedPublicOf(held.value)

\* The operations that parse a key or a signature from base64 text.
FromBase64Ops ==
    {"Curve25519PublicKey::from_base64", "Ed25519PublicKey::from_base64",
     "Ed25519Signature::from_base64"}

\* The number of bytes the text given to a from_base64 has to decode to.
ExpectedLength(op) ==
    IF op = "Ed25519Signature::from_base64"
    THEN SIGNATURE_LENGTH
    ELSE PUBLIC_KEY_LENGTH

\* What the claim says of Curve25519PublicKey::from_base64: the decoder's
\* error with its sub-kind for malformed text, as for the texts "a", "a "
\* and "aZ" of the tests; InvalidKeyLength with the actual length for
\* another number of bytes; Ok for 32 bytes.
Curve25519FromBase64AsStated ==
    last.op = "Curve25519PublicKey::from_base64" =>
        LET decoded == base64_decode(last.input)
        IN /\ ~decoded.ok => last.result = decoded
           /\ last.input = <<Symbol_a>> =>
                last.result = Err([kind |-> "Base64", sub |-> "InvalidLength"])
           /\ last.input = <<Symbol_a, InvalidSymbol>> =>
                last.result = Err([kind |-> "Base64", sub |-> "InvalidByte"])
           /\ last.input = <<Symbol_a, Symbol_Z>> =>
                last.result = Err([kind |-> "Base64", sub |-> "InvalidLastSymbol"])
           /\ (decoded.ok /\ Len(decoded.value) # KEY_LENGTH) =>
                last.result = Err([kind |-> "InvalidKeyLength",
                                   len |-> Len(decoded.value)])
           /\ (decoded.ok /\ Len(decoded.value) = KEY_LENGTH) =>
                /\ last.result.ok
                /\ last.result.value.inner = decoded.value
                /\ held = Some(last.result.value)

\* C16 as stated: from_base64 of a public key or a signature rejects a
\* wrong decoded length with an error that is not the one for malformed
\* base64, and succeeds for every text that decodes to the right length.
C16_RightLengthAlwaysAccepted ==
    /\ last.op \in FromBase64Ops =>
        LET decoded == base64_decode(last.input)
        IN /\ ~decoded.ok =>
                ~last.result.ok /\ last.result.error.kind = "Base64"
           /\ (decoded.ok /\ Len(decoded.value) # ExpectedLength(last.op)) =>
                ~last.result.ok /\ last.result.error.kind # "Base64"
           /\ (decoded.ok /\ Len(decoded.value) = ExpectedLength(last.op)) =>
                last.result.ok
    /\ Curve25519FromBase64AsStated

\* C16 amended: from_base64 of a public key or a signature rejects
\* malformed base64 with the decoder's error and a wrong decoded length
\* with another error.  Text that decodes to the right length is accepted,
\* except by Ed25519PublicKey::from_base64 when the 32 bytes are not the
\* encoding of a curve point: these are rejected with the signature error
\* of the key construction.  Curve25519PublicKey::from_base64 behaves as
\* stated.
C16_RightLengthAcceptedIfPoint ==
    /\ last.op \in FromBase64Ops =>
        LET decoded == base64_decode(last.input)
            not_a_point == /\ last.op = "Ed25519PublicKey::from_base64"
                           /\ decoded.value = NotAPoint
        IN /\ ~decoded.ok =>
                ~last.result.ok /\ last.result.error.kind = "Base64"
           /\ (decoded.ok /\ Len(decoded.value) # ExpectedLength(last.op)) =>
                /\ ~last.result.ok
                /\ last.result.error.kind \notin {"Base64", "Ok"}
                /\ held = None
           /\ (decoded.ok /\ Len(decoded.value) = ExpectedLength(last.op)) =>
                IF not_a_point
                THEN ~last.result.ok /\ last.result.error.kind = "Signature"
                ELSE /\ last.result.ok
                     /\ last.result.value.inner = decoded.value
    /\ Curve25519FromBase64AsStated

\* Ed25519PublicKey::from_base64 has just rejected the base64 of 32 bytes
\* that are not a point.
C16_Witness ==
    /\ last.op = "Ed25519PublicKey::from_base64"
    /\ base64_decode(last.input) = Ok(NotAPoint)
    /\ ~last.result.ok
    /\ last.result.error.kind = "Signature"
    /\ held = None

\* Pickle::from(keypair) of the type of the keypair
PickleOf(keypair) ==
    CASE keypair.type = "Curve25519Keypair" -> Curve25519KeypairPickle_from(keypair)
      [] keypair.type = "types::Ed25519Keypair" ->
            types_Ed25519KeypairPickle_from(keypair)
      [] keypair.type = "ed25519::Ed25519Keypair" ->
            ed25519_Ed25519KeypairPickle_from(keypair)

\* Keypair::from(pickle) / Keypair::try_from(pickle) of the type of the
\* pickle, as a Result
UnpickleOf(pickle) ==
    CASE pickle.type = "Curve25519KeypairPickle" ->
            Ok(Curve25519Keypair_from(pickle).value)
      [] pickle.type = "types::Ed25519KeypairPickle" ->
            types_Ed25519Keypair_try_from(pickle).value
      [] pickle.type = "ed25519::Ed25519KeypairPickle" ->
            Ok(ed25519_Ed25519Keypair_from(pickle).value)

\* A pickle has just been converted to a keypair.
Unpickled == last.op = "unpickle" /\ held.some

\* A keypair has just been converted to a pickle.
Pickled == last.op = "pickle"

\* keypair -> pickle -> keypair yields a keypair with the same secret and
\* the same public key.
KeypairSurvivesPickling ==
    Pickled =>
        LET back == UnpickleOf(held.value)
        IN /\ back.ok
           /\ SecretOf(back.value) = SecretOf(last.before.value)
           /\ PublicOf(back.value) = PublicOf(last.before.value)

\* C17 as stated: converting a pickle to a keypair and back to a pickle
\* yields a pickle identical to the original, for every pickle and each
\* keypair type, and keypair -> pickle -> keypair keeps both keys.
C17_PickleRoundTripExact ==
    /\ Unpickled => PickleOf(held.value) = last.before.value
    /\ KeypairSurvivesPickling

\* Whether 32 bytes are a clamped scalar.
IsClamped(bytes) ==
    /\ bytes[1] % 8 = 0
    /\ bytes[CURVE25519_SECRET_KEY_LEN] \in 64 .. 127

\* C17 amended: keypair -> pickle -> keypair keeps both keys for each
\* keypair type.  pickle -> keypair -> pickle yields the original pickle
\* for every Ed25519 pickle that converts, for every pickle made from a
\* keypair, and for every Curve25519 pickle whose secret bytes are a
\* clamped scalar; a Curve25519 pickle whose secret bytes are not clamped
\* comes back with the same public bytes and the secret clamped (low three
\* bits of the first byte and top bit of the last byte cleared, second
\* highest bit of the last byte set).
C17_PickleRoundTripUpToClamping ==
    /\ Unpickled =>
        LET original == last.before.value
            back == PickleOf(held.value)
        IN IF original.type = "Curve25519KeypairPickle"
           THEN /\ back.type = original.type
                /\ back.public = original.public
                /\ \A i \in 2 .. (CURVE25519_SECRET_KEY_LEN - 1) :
                      back.secret[i] = original.secret[i]
                /\ back.secret[1] = 8 * (original.secret[1] \div 8)
                /\ back.secret[CURVE25519_SECRET_KEY_LEN]
                     = 64 + (original.secret[CURVE25519_SECRET_KEY_LEN] % 64)
                /\ IsClamped(original.secret) => back = original
           ELSE back = original
    /\ Pickled => PickleOf(UnpickleOf(held.value).value) = held.value
    /\ KeypairSurvivesPickling

\* A stored Curve25519 pickle whose secret bytes are not a clamped scalar
\* has just been converted to a keypair.
C17_Witness ==
    /\ Unpickled
    /\ last.before.value.type = "Curve25519KeypairPickle"
    /\ ~IsClamped(last.before.value.secret)
    /\ PickleOf(held.value) # last.before.value
    /\ PickleOf(held.value).public = last.before.value.public

\* from_base64(to_base64(v)) for a public key or a signature v.
Base64RoundTrip(v) ==
    CASE v.type = "Curve25519PublicKey" ->
            Curve25519PublicKey_from_base64(Curve25519PublicKey_to_base64(v))
      [] v.type = "Ed25519PublicKey" ->
            Ed25519PublicKey_from_base64(Ed25519PublicKey_to_base64(v))
      [] v.type = "Ed25519Signature" ->
            Ed25519Signature_from_base64(Ed25519Signature_to_base64(v))

Base64Types == {"Curve25519PublicKey", "Ed25519PublicKey", "Ed25519Signature"}

\* The from_base64 of a type.
FromBase64Of(type) ==
    CASE type = "Curve25519PublicKey" -> "Curve25519PublicKey::from_base64"
      [] type = "Ed25519PublicKey" -> "Ed25519PublicKey::from_base64"
      [] type = "Ed25519Signature" -> "Ed25519Signature::from_base64"

\* C18: for every public key k of either key type and every signature s,
\* from_base64(to_base64(k)) succeeds and equals k, and
\* from_base64(to_base64(s)) succeeds and equals s.
C18_Base64RoundTrip ==
    /\ (held.some /\ held.value.type \in Base64Types)
       => Base64RoundTrip(held.value) = Ok(held.value)
    /\ ( /\ last.op \in FromBase64Ops
         /\ last.before.some
         /\ last.op = FromBase64Of(last.before.value.of.type) )
       => /\ last.input = last.before.value.text
          /\ last.result = Ok(last.before.value.of)
          /\ held = Some(last.before.value.of)

\* A signature has just been read back from the text that to_base64 made
\* of it.
C18_Witness ==
    /\ last.op = "Ed25519Signature::from_base64"
    /\ last.before.some
    /\ last.before.value.of.type = "Ed25519Signature"
    /\ held = Some(last.before.value.of)

\* The private-key bytes a released pickle container holds.
PrivateBytes(container) ==
    CASE container.type = "Curve25519KeypairPickle" -> container.secret
      [] container.type = "types::Ed25519KeypairPickle" -> container.bytes
      [] container.type = "ed25519::Ed25519KeypairPickle" ->
            IF "moved" \in DOMAIN container
            THEN <<>>
            ELSE container.signing.secret_key

FreshSession(self) == [self EXCEPT !.latest_ratchet = self.initial_ratchet]

\* Advancing a ratchet to a and then to b >= a gives the ratchet that
\* advancing it directly to b gives.
AdvanceToComposes(r) ==
    \A a, b \in MsgIndices :
        (Ratchet_index(r) <= a /\ a <= b)
        => Ratchet_advance_to(Ratchet_advance_to(r, a), b) = Ratchet_advance_to(r, b)

\* C21: for every index N >= initial_ratchet.index() and every prior sequence
\* of decrypt calls, the ratchet the lookup returns for N has the key bytes
\* of a fresh copy of initial_ratchet advanced directly to N (advance-to being
\* composable); so a message, the sender's authentic one included, decrypts
\* to the same result wherever it falls in the session's history.
C21_HistoryIndependentKeys ==
    session.some =>
        /\ AdvanceToComposes(initial_ratchet)
        /\ \A n \in MsgIndices :
               n >= Ratchet_index(initial_ratchet)
               => LET found == find_ratchet(session.value, n).ratchet
                  IN /\ found.some
                     /\ Ratchet_as_bytes(found.value)
                            = Ratchet_as_bytes(Ratchet_advance_to(initial_ratchet, n))
                     /\ decrypt(session.value,
                                AuthenticMessage(session.value, n)).result
                            = decrypt(FreshSession(session.value),
                                      AuthenticMessage(session.value, n)).result
        /\ \A ciphertext \in Ciphertexts :
               decrypt(session.value, ciphertext).result
                   = decrypt(FreshSession(session.value), ciphertext).result

\* A session whose latest_ratchet an earlier call had left above
\* initial_ratchet has just decrypted a message at latest_ratchet's index,
\* with the key bytes that earlier call computed.
C21_Witness ==
    /\ Decrypted("Ok")
    /\ declared = Ratchet_index(call.before.latest_ratchet)
    /\ declared > Ratchet_index(call.before.initial_ratchet)
    /\ call.before # FreshSession(call.before)
    /\ Ratchet_as_bytes(latest_ratchet)
           = Ratchet_as_bytes(Ratchet_advance_to(initial_ratchet, declared))

\* ------------------------------------------------------------------------
\* The precondition of Ratchet::advance_to
\* ------------------------------------------------------------------------

\* The call of advance_to that the lookup of message_index makes on session
\* `self` is the one that produces the lookup's effect: the ratchet returned
\* and stored is the ratchet of the call advanced to its target, and without
\* a call the session is left as it was.
AdvanceToCallOfLookup(self, message_index) ==
    LET invoked == find_ratchet_advance_to(self, message_index)
        found == find_ratchet(self, message_index)
    IN IF invoked.some
       THEN /\ found.ratchet
                 = Some(Ratchet_advance_to(invoked.value.ratchet, invoked.value.to))
            /\ found.session.latest_ratchet = found.ratchet.value
            /\ invoked.value.to = message_index
       ELSE found.session = self

\* C22: in every reachable session state and for every requested message
\* index, advance_to is only invoked on a ratchet whose current index is
\* strictly less than the target index, never with a target below or equal
\* to the ratchet's current index.
C22_AdvanceToOnlyForward ==
    /\ session.some =>
         \A m \in MsgIndices :
             LET invoked == find_ratchet_advance_to(session.value, m)
             IN /\ AdvanceToCallOfLookup(session.value, m)
                /\ invoked.some
                   => Ratchet_index(invoked.value.ratchet) < invoked.value.to
    /\ ( /\ call.op = "decrypt"
         /\ call.declared.some
         /\ call.result.kind # "Signature" )
       => LET invoked == find_ratchet_advance_to(call.before, declared)
          IN /\ AdvanceToCallOfLookup(call.before, declared)
             /\ invoked.some
                => /\ Ratchet_index(invoked.value.ratchet) < invoked.value.to
                   /\ latest_ratchet
                          = Ratchet_advance_to(invoked.value.ratchet, declared)

\* A decrypt has just invoked advance_to on a copy of initial_ratchet, for
\* an index between the two ratchets, and another state's lookup would
\* invoke it on latest_ratchet itself.
C22_Witness ==
    /\ call.op = "decrypt"
    /\ call.declared.some
    /\ call.result.kind # "Signature"
    /\ find_ratchet_advance_to(call.before, declared)
           = Some([ratchet |-> call.before.initial_ratchet, to |-> declared])
    /\ call.before.latest_ratchet # call.before.initial_ratchet
    /\ find_ratchet_advance_to(session.value, MaxIndex)
           = Some([ratchet |-> latest_ratchet, to |-> MaxIndex])

\* ------------------------------------------------------------------------
\* The cached encoding of the public key (types.rs)
\* ------------------------------------------------------------------------

\* The keypair types of types.rs, which cache the base64 text of their
\* public key.
CachingKeypairTypes == {"Curve25519Keypair", "types::Ed25519Keypair"}

\* Ed25519Keypair::public_key_encoded / Curve25519Keypair::public_key_encoded
public_key_encoded(keypair) == keypair.encoded_public_key

\* C23: for Ed25519Keypair and Curve25519Keypair of types.rs, after new(),
\* after clone and after unpickling from a pickle, public_key_encoded() is
\* the unpadded base64 encoding of the bytes of public_key().
C23_EncodedPublicKeyConsistent ==
    (held.some /\ held.value.type \in CachingKeypairTypes)
    => public_key_encoded(held.value) = base64_encode(PublicOf(held.value))

\* ------------------------------------------------------------------------
\* Session construction returns normally
\* ------------------------------------------------------------------------

\* The errors new() declares: the variants of SessoinCreationError.
DeclaredCreationErrors == {"Base64", "Read", "Version", "Signature"}

\* The steps of new() at or after the evaluation of decoded.len() - 64.
AfterSignedRegion == {"signed_region", "verify", "ok"}

\* C24: for every input text, new() returns either a session or one of its
\* declared errors; the slice bound decoded.len() - 64 is only evaluated when
\* all field reads succeeded, so it never underflows or goes out of bounds
\* (empty input, inputs shorter than the five fields and longer inputs
\* included).
C24_NewReturnsNormally ==
    call.op = "new" =>
        /\ call.result.kind \in {"Ok"} \cup DeclaredCreationErrors
        /\ call.result.kind = "Ok" <=> call.result.session.some
        /\ session = call.result.session
        /\ call.result.step \in AfterSignedRegion
           => /\ call.input.base64_ok
              /\ \A step \in {"read_version", "read_index", "read_ratchet",
                              "read_public_key", "read_signature"} :
                     StepPasses(call.input, step)
              /\ call.input.len >= SignatureEnd
              /\ signed_region_in_bounds(call.input.len)
        /\ ( /\ call.input.base64_ok
             /\ call.input.len < SignatureEnd )
           => /\ call.result.kind \in {"Read", "Version"}
              /\ call.result.step \notin AfterSignedRegion

\* new() has just evaluated the slice bound on a session key one byte longer
\* than the five fields and returned the signature error.
C24_Witness ==
    /\ call.op = "new"
    /\ call.input.len = SignatureEnd + 1
    /\ call.result.step = "verify"
    /\ call.result.kind = "Signature"
    /\ signed_region(call.input.len) = Prefix(PublicKeyEnd + 1)

====
